---- MODULE Spec2Model ----
(***************************************************************************)
(* Model of the entity / relationship store of src/src/entities.py and the *)
(* flat-file record store of src/src/io.py.                                *)
(*                                                                         *)
(* A Python call is modelled as a pure operator from a "world" record to a *)
(* "world" record.  The world carries the three CSV tables, the live       *)
(* Python objects, the pending exception (err) and the log of the writes   *)
(* the running call has asked of the IOController so far.  An              *)
(* operator that finds err set is never applied: the callers test err      *)
(* after every step, which is how a raised exception skips the rest of a   *)
(* Python body.  try/except is a test of err followed by Caught.           *)
(*                                                                         *)
(* Strings are sequences of characters.  An identifier is a one-character  *)
(* string <<n>>, the separator of the relationship encoding is Sep.        *)
(***************************************************************************)
EXTENDS Integers, Sequences, FiniteSets, TLC

\* ---------------------------------------------------------------- bounds
MaxPersons == 2   \* persons ever constructed
RelPersons == 1   \* persons constructed where every argument form is tried
MaxGroups == 1    \* groups ever constructed
MaxPayments == 1  \* payments ever constructed
MaxExtra == 1     \* second references to an entity the caller holds (from_store)
MaxLen == 2       \* longest relationship list kept in the model
MaxRows == 2      \* most rows of one table where rows can be stored twice
MaxCallers == 2   \* callers that run IOController.update at the same time

\* -------------------------------------------------------------- constants
Sep == 0         \* the ';' of the relationship encoding

VARIABLES
    tables,   \* the CSV file of every kind: the sequence of its rows
    objs,     \* the Python objects the caller holds, by reference
    last,     \* the last call: what was called and how it ended
    calls     \* the IOController.update calls in progress, by caller
vars == <<tables, objs, last, calls>>

Kinds == {"person", "group", "payment"}

NoErr == "none"

\* The identifiers uuid4 can return, by the kind of the entity that asks:
\* uuid4 returns a string no entity has, which one is immaterial.
NIds == MaxPersons + MaxGroups + MaxPayments
IdsOf(cls) ==
    CASE cls = "person" -> {<<n>> : n \in 1..MaxPersons}
      [] cls = "group" -> {<<n>> : n \in (MaxPersons + 1)..(MaxPersons + MaxGroups)}
      [] cls = "payment" -> {<<n>> : n \in (MaxPersons + MaxGroups + 1)..NIds}
Ids == {<<n>> : n \in 1..NIds}

\* References: the object a constructor returned is reference n for the
\* entity <<n>>; Extra are the references from_store returned; Tmp1 and Tmp2
\* are the temporaries a call builds and drops.
Slots == 1..(NIds + MaxExtra)
Extra == (NIds + 1)..(NIds + MaxExtra)
Tmp1 == NIds + MaxExtra + 1
Tmp2 == NIds + MaxExtra + 2
AllSlots == 1..(NIds + MaxExtra + 2)

Null == [kind |-> "null"]

None == [tag |-> "none"]
Str(v) == [tag |-> "str", v |-> v]
Dict == [tag |-> "dict"]
IdArg(id) == [tag |-> "id", id |-> id]
EntityArg(h) == [tag |-> "entity", h |-> h]
ListArg(items) == [tag |-> "list", items |-> items]

Range(s) == {s[i] : i \in DOMAIN s}

\* ------------------------------------------------------ class attributes
RELATIONSHIP_TYPE(cls) ==
    CASE cls = "person" -> "group"
      [] cls = "group" -> "person"
      [] cls = "payment" -> "person"

REQUIRED_ARGS(cls) ==
    IF cls = "payment" THEN {"payer_id", "group_id", "amount"} ELSE {"name"}

\* ------------------------------------------------------ exceptions, log
Raise(w, e) == [w EXCEPT !.err = e]
Caught(w) == [w EXCEPT !.err = NoErr]
Logged(w, op, entity) ==
    [w EXCEPT !.log = Append(@, [op |-> op, type |-> entity.kind, id |-> entity.attrs.id])]

\* ---------------------------------------------------------- encodings
\* RelationalEntity.to_df: repr += rel + ';' for every rel, then repr[:-1]
RECURSIVE relationship_concat(_)
relationship_concat(lst) ==
    IF lst = <<>> THEN <<>>
    ELSE Head(lst) \o <<Sep>> \o relationship_concat(Tail(lst))

relationship_repr(lst) ==
    LET r == relationship_concat(lst)
    IN IF r = <<>> THEN <<>> ELSE SubSeq(r, 1, Len(r) - 1)

\* str.split(';')
RECURSIVE split(_)
split(s) ==
    IF \A i \in DOMAIN s : s[i] # Sep THEN <<s>>
    ELSE LET i == CHOOSE k \in DOMAIN s : s[k] = Sep /\ \A j \in 1..(k - 1) : s[j] # Sep
         IN <<SubSeq(s, 1, i - 1)>> \o split(SubSeq(s, i + 1, Len(s)))

\* pandas: to_csv writes NaN as the empty field, read_csv reads the empty
\* field as NaN
write_cell(c) == IF c.nan THEN <<>> ELSE c.str
read_cell(s) == IF s = <<>> THEN [nan |-> TRUE, str |-> <<>>] ELSE [nan |-> FALSE, str |-> s]

\* ------------------------------------------------------------ IOController
retrieve_entity_list(w, entity_type) ==
    [i \in DOMAIN w.tables[entity_type] |->
        [w.tables[entity_type][i] EXCEPT !.rel = read_cell(@)]]

\* Faulty variant: the rows other callers wrote are kept, the last row of the
\* frame replaces the row of its id
_save_merging(w, df, entity_type) ==
    IF df = <<>> THEN [w EXCEPT !.tables[entity_type] = <<>>]
    ELSE [w EXCEPT !.tables[entity_type] =
            Append(SelectSeq(@, LAMBDA r : r.id # df[Len(df)].id),
                   [df[Len(df)] EXCEPT !.rel = write_cell(@)])]

_save(w, df, entity_type) ==
    [w EXCEPT !.tables[entity_type] = [i \in DOMAIN df |-> [df[i] EXCEPT !.rel = write_cell(@)]]]

\* current_list.index == id; an Entity object never equals an index label
IndexEq(label, x) == x.tag = "id" /\ label = x.id

is_type(w, entity_type, x) ==
    LET current_list == retrieve_entity_list(w, entity_type)
    IN Cardinality({i \in DOMAIN current_list : IndexEq(current_list[i].id, x)}) = 1

to_df(entity) ==
    [entity.attrs EXCEPT !.rel = [nan |-> FALSE, str |-> relationship_repr(entity.list)]]

store(w, h) ==
    LET entity == w.objs[h]
        current_list == retrieve_entity_list(w, entity.kind)
    IN _save(Logged(w, "store", entity), Append(current_list, to_df(entity)), entity.kind)

update(w, h) ==
    LET entity == w.objs[h]
        current_list == retrieve_entity_list(w, entity.kind)
        w1 == Logged(w, "update", entity)
    IN IF \A i \in DOMAIN current_list : current_list[i].id # entity.attrs.id
       THEN Raise(w1, "ValueError")     \* drop of a label that is not in the index
       ELSE _save(w1,
                  Append(SelectSeq(current_list, LAMBDA r : r.id # entity.attrs.id), to_df(entity)),
                  entity.kind)

\* IOController.remove_by_id: a label that is not in the index is ignored
remove_by_id(w, entity_type, id) ==
    LET current_list == retrieve_entity_list(w, entity_type)
        w1 == [w EXCEPT !.log = Append(@, [op |-> "remove_by_id", type |-> entity_type, id |-> id])]
    IN _save(w1, SelectSeq(current_list, LAMBDA r : r.id # id), entity_type)

HasRow(w, entity_type, id) ==
    \E i \in DOMAIN w.tables[entity_type] : w.tables[entity_type][i].id = id

retrieve_by_id(w, entity_type, id) ==
    LET current_list == retrieve_entity_list(w, entity_type)
    IN SelectSeq(current_list, LAMBDA r : r.id = id)[1]

retrieve_payments_data_for_group(w, group_id) ==
    SelectSeq(retrieve_entity_list(w, "payment"), LAMBDA r : r.group_id = group_id)

\* ------------------------------------------------------------ Python values
\* the list of ids as the Python list the attribute map holds
IdList(lst) == ListArg([i \in DOMAIN lst |-> IdArg(lst[i])])

\* "not relationship": None and the empty list are falsy, an Entity is truthy
Falsy(x) ==
    \/ x.tag = "none"
    \/ x.tag = "list" /\ x.items = <<>>
    \/ x.tag = "id" /\ x.id = <<>>

Self(h) == EntityArg(h)

\* list.append / list.remove on _relationship_list; the attribute map sees
\* the change when it holds this very list object (alias)
SetList(w, h, lst) ==
    [w EXCEPT !.objs[h] = [@ EXCEPT !.list = lst,
                                    !.attrs.rel = IF w.objs[h].alias THEN IdList(lst) ELSE @]]

RECURSIVE RemoveFirst(_, _)
RemoveFirst(lst, x) ==
    IF lst = <<>> THEN <<>>
    ELSE IF Head(lst) = x THEN Tail(lst)
    ELSE <<Head(lst)>> \o RemoveFirst(Tail(lst), x)

\* self._attrs.update({self.RELATIONSHIP_ATTR: self._relationship_list})
AttrsUpdateRelationship(w, h) ==
    [w EXCEPT !.objs[h] = [@ EXCEPT !.alias = TRUE, !.attrs.rel = IdList(w.objs[h].list)]]

\* ------------------------------------------------------------------ Entity
\* Faulty variant: the entity is written twice
update_in_store_twice(w, h) ==
    LET w1 == update(w, h)
    IN IF w1.err # NoErr THEN w1 ELSE update(w1, h)

update_in_store(w, h) == update(w, h)

delete_from_store(w, h) == remove_by_id(w, w.objs[h].kind, w.objs[h].attrs.id)

\* self._attrs.update(kwargs): a relationship attribute that is supplied
\* replaces the reference to _relationship_list
AttrsUpdate(w, h, kwargs) ==
    [w EXCEPT !.objs[h] =
        [@ EXCEPT !.attrs = [a \in DOMAIN @ \cup DOMAIN kwargs |->
                                IF a \in DOMAIN kwargs THEN kwargs[a] ELSE @[a]],
                  !.alias = IF "rel" \in DOMAIN kwargs THEN FALSE ELSE @]]

ALLOWED_TYPES == {"str", "int", "float", "float64"}

\* type(kwargs[arg]): identifiers are str and the amount is an int; the
\* other values carry their Python type as a tag
type(arg, value) ==
    IF arg \in {"id", "group_id", "payer_id"} THEN "str"
    ELSE IF arg = "amount" THEN "int"
    ELSE IF value.tag \in {"str", "id"} THEN "str"
    ELSE IF value.tag = "none" THEN "NoneType"
    ELSE IF value.tag = "entity" THEN "Entity"
    ELSE value.tag

\* RelationalEntity._check_args: the relationship attribute may be None or a
\* list; every other value must be of an allowed type
_check_args(kwargs) ==
    \A arg \in DOMAIN kwargs :
        \/ arg = "rel" /\ kwargs[arg].tag \in {"none", "list"}
        \/ type(arg, kwargs[arg]) \in ALLOWED_TYPES

_check_required_args(cls, kwargs) == REQUIRED_ARGS(cls) \subseteq DOMAIN kwargs

\* Faulty variant: the attributes are merged before they are validated
update_attributes_merge_first(w, h, kwargs) ==
    IF ~_check_args(kwargs) THEN Raise(AttrsUpdate(w, h, kwargs), "TypeError")
    ELSE update_in_store(AttrsUpdate(w, h, kwargs), h)

update_attributes(w, h, kwargs) ==
    IF ~_check_args(kwargs) THEN Raise(w, "TypeError")
    ELSE update_in_store(AttrsUpdate(w, h, kwargs), h)

\* uuid.uuid4(): an identifier no stored row and no object has
Unused(w, cls) ==
    {id \in IdsOf(cls) :
        /\ \A k \in Kinds : \A i \in DOMAIN w.tables[k] : w.tables[k][i].id # id
        /\ \A s \in AllSlots : w.objs[s] # Null => w.objs[s].attrs.id # id
        /\ w.objs[id[1]] = Null}
uuid4(w, cls) == CHOOSE id \in Unused(w, cls) : \A o \in Unused(w, cls) : id[1] <= o[1]

\* Entity.__init__ as RelationalEntity reaches it (store=False)
Entity_init(w, h, cls, kwargs) ==
    IF ~_check_args(kwargs) THEN Raise(w, "TypeError")
    ELSE IF ~_check_required_args(cls, kwargs) THEN Raise(w, "ValueError")
    ELSE LET _attrs == IF "id" \in DOMAIN kwargs THEN kwargs
                       ELSE kwargs @@ ("id" :> uuid4(w, cls))
         IN [w EXCEPT !.objs[h] = [kind |-> cls, attrs |-> _attrs, list |-> <<>>, alias |-> FALSE]]

RECURSIVE RelationalEntity_init(_, _, _, _, _)
RECURSIVE RelationalEntity_from_store(_, _, _, _)
RECURSIVE add_relationship(_, _, _, _)
RECURSIVE _add_entity(_, _, _, _)
RECURSIVE _add_entities(_, _, _, _)
RECURSIVE _establish_connection(_, _, _)
RECURSIVE add_to_group(_, _, _, _)
RECURSIVE add_member(_, _, _, _)

\* Faulty variant: the beneficiaries are not taken from the group
_auto_fill_none(w, h) == [w EXCEPT !.objs[h].attrs.rel = None]

\* Payment._auto_fill('paid_for'): Group.from_store(group_id).members.
\* AutoFillEntity._auto_fill returns None for Person and Group.
_auto_fill(w, h) ==
    IF w.objs[h].kind = "payment"
    THEN LET w1 == RelationalEntity_from_store(w, Tmp2, "group", w.objs[h].attrs.group_id)
         IN IF w1.err # NoErr THEN [w1 EXCEPT !.objs[Tmp2] = Null]
            ELSE [w1 EXCEPT !.objs[h].attrs.rel = IdList(w1.objs[Tmp2].list),
                            !.objs[Tmp2] = Null]
    ELSE [w EXCEPT !.objs[h].attrs.rel = None]

\* AutoFillEntity.__init__ (store=False)
AutoFillEntity_init(w, h, cls, kwargs) ==
    LET w1 == Entity_init(w, h, cls, kwargs)
    IN IF w1.err # NoErr THEN w1
       ELSE IF kwargs.rel.tag = "none" THEN _auto_fill(w1, h)
       ELSE w1

\* Faulty variant: the type check of the target is left out
_add_entity_by_id_unchecked(w, h, entity_id) ==
    IF entity_id.tag # "id" THEN Raise(w, "TypeError")
    ELSE SetList(w, h, Append(w.objs[h].list, entity_id.id))

_add_entity_by_id(w, h, entity_id) ==
    IF ~is_type(w, RELATIONSHIP_TYPE(w.objs[h].kind), entity_id)
    THEN Raise(w, "TypeError")
    ELSE SetList(w, h, Append(w.objs[h].list, entity_id.id))

_add_entity(w, h, entity, establish_connection) ==
    IF entity.tag # "entity" THEN Raise(w, "TypeError")
    ELSE LET w1 == _add_entity_by_id(w, h, IdArg(w.objs[entity.h].attrs.id))
         IN IF w1.err # NoErr THEN w1
            ELSE IF establish_connection THEN _establish_connection(w1, h, entity)
            ELSE w1

RECURSIVE _add_entities_by_ids(_, _, _)
_add_entities_by_ids(w, h, entity_ids) ==
    IF entity_ids = <<>> THEN w
    ELSE LET w1 == _add_entity_by_id(w, h, Head(entity_ids))
         IN IF w1.err # NoErr THEN w1
            ELSE _add_entities_by_ids(w1, h, Tail(entity_ids))

_add_entities(w, h, entities, establish_connection) ==
    IF entities = <<>> THEN w
    ELSE LET w1 == _add_entity(w, h, Head(entities), establish_connection)
         IN IF w1.err # NoErr THEN w1
            ELSE _add_entities(w1, h, Tail(entities), establish_connection)

\* Faulty variant: the peer is never told
_establish_connection_none(w, h, entity) == w

\* Person._establish_connection: entity.add_member(self, establish_connection=False)
\* Group._establish_connection: entity.add_to_group(self, establish_connection=False)
\* RelationalEntity._establish_connection (Payment): pass
_establish_connection(w, h, entity) ==
    CASE w.objs[h].kind = "person" ->
            IF w.objs[entity.h].kind = "group"
            THEN add_member(w, entity.h, Self(h), FALSE)
            ELSE Raise(w, "AttributeError")
      [] w.objs[h].kind = "group" ->
            IF w.objs[entity.h].kind = "person"
            THEN add_to_group(w, entity.h, Self(h), FALSE)
            ELSE Raise(w, "AttributeError")
      [] OTHER -> w

add_relationship(w, h, relationship, establish_connection) ==
    IF Falsy(relationship) THEN w
    ELSE LET w1 == IF relationship.tag = "list"
                   THEN LET t == _add_entities(w, h, relationship.items, establish_connection)
                        IN IF t.err = "TypeError"
                           THEN _add_entities_by_ids(Caught(t), h, relationship.items)
                           ELSE t
                   ELSE LET t == _add_entity(w, h, relationship, establish_connection)
                        IN IF t.err = "TypeError"
                           THEN _add_entity_by_id(Caught(t), h, relationship)
                           ELSE t
         IN IF w1.err # NoErr THEN w1
            ELSE update_in_store(AttrsUpdateRelationship(w1, h), h)

add_to_group(w, h, group, establish_connection) ==
    add_relationship(w, h, group, establish_connection)

\* Faulty variant: add_member never propagates
add_member_unlinked(w, h, person, establish_connection) ==
    add_relationship(w, h, person, FALSE)

add_member(w, h, person, establish_connection) ==
    add_relationship(w, h, person, establish_connection)

add_person(w, h, person) == add_relationship(w, h, person, TRUE)

RECURSIVE remove_relationship(_, _, _, _)
RECURSIVE _remove_connection(_, _, _)

remove_from_group(w, h, group, remove_connection) ==
    remove_relationship(w, h, group, remove_connection)

remove_member(w, h, person, remove_connection) ==
    remove_relationship(w, h, person, remove_connection)

remove_person(w, h, person) == remove_relationship(w, h, person, TRUE)

\* Faulty variant: the peer keeps the edge
_remove_connection_none(w, h, entity) == w

\* Person._remove_connection: entity.remove_member(self, remove_connection=False)
\* Group._remove_connection: entity.remove_from_group(self, remove_connection=False)
_remove_connection(w, h, entity) ==
    CASE w.objs[h].kind = "person" ->
            IF w.objs[entity.h].kind = "group"
            THEN remove_member(w, entity.h, Self(h), FALSE)
            ELSE Raise(w, "AttributeError")
      [] w.objs[h].kind = "group" ->
            IF w.objs[entity.h].kind = "person"
            THEN remove_from_group(w, entity.h, Self(h), FALSE)
            ELSE Raise(w, "AttributeError")
      [] OTHER -> w

\* Faulty variant: removing an edge that is not there is a silent no-op
remove_relationship_lenient(w, h, relationship, remove_connection) ==
    IF relationship.tag # "entity" THEN Raise(w, "AttributeError")
    ELSE LET rid == w.objs[relationship.h].attrs.id
         IN IF rid \notin Range(w.objs[h].list) THEN w
            ELSE LET w1 == SetList(w, h, RemoveFirst(w.objs[h].list, rid))
                     w2 == IF remove_connection THEN _remove_connection(w1, h, relationship)
                           ELSE w1
                 IN IF w2.err # NoErr THEN w2
                    ELSE update_in_store(AttrsUpdateRelationship(w2, h), h)

remove_relationship(w, h, relationship, remove_connection) ==
    IF relationship.tag # "entity" THEN Raise(w, "AttributeError")   \* no .id on a str, a list or None
    ELSE LET rid == w.objs[relationship.h].attrs.id
         IN IF rid \notin Range(w.objs[h].list) THEN Raise(w, "ValueError")
            ELSE LET w1 == SetList(w, h, RemoveFirst(w.objs[h].list, rid))
                     w2 == IF remove_connection THEN _remove_connection(w1, h, relationship)
                           ELSE w1
                 IN IF w2.err # NoErr THEN w2
                    ELSE update_in_store(AttrsUpdateRelationship(w2, h), h)

\* RelationalEntity.__init__
RelationalEntity_init(w, h, cls, do_store, kwargs) ==
    LET w1 == AutoFillEntity_init(w, h, cls, kwargs)
    IN IF w1.err # NoErr THEN w1
       ELSE LET w2 == IF do_store THEN store(w1, h) ELSE w1
            IN add_relationship(w2, h, w2.objs[h].attrs.rel, TRUE)

\* RelationalEntity.from_store
RelationalEntity_from_store(w, h, cls, id) ==
    IF ~HasRow(w, cls, id) THEN Raise(w, "IndexError")      \* .iloc[0] of an empty frame
    ELSE LET dct == retrieve_by_id(w, cls, id)
             no_relationships == dct.rel.nan
             lst == split(dct.rel.str)
         IN RelationalEntity_init(w, h, cls, FALSE,
                [dct EXCEPT !.rel = IF no_relationships THEN None ELSE IdList(lst)])

\* Payment(**dct) for every payment row of the group: Group.payments.
\* p['paid_for'].split(';') fails on the NaN of an empty cell.
RECURSIVE payments_from(_, _)
payments_from(w, data) ==
    IF data = <<>> THEN w
    ELSE IF Head(data).rel.nan THEN Raise(w, "AttributeError")
    ELSE payments_from(w, Tail(data))

RECURSIVE payments_build(_, _)
payments_build(w, data) ==
    IF data = <<>> THEN w
    ELSE LET dct == Head(data)
             w1 == RelationalEntity_init(w, Tmp1, "payment", FALSE,
                       [dct EXCEPT !.rel = IdList(split(dct.rel.str))])
         IN IF w1.err # NoErr THEN w1 ELSE payments_build(w1, Tail(data))

payments(w, h) ==
    LET data == retrieve_payments_data_for_group(w, w.objs[h].attrs.id)
        w1 == payments_from(w, data)
    IN IF w1.err # NoErr THEN w1 ELSE payments_build(w1, data)

\* Person.make_payment: the Payment is built, stored and dropped
make_payment(w, h, group, amount, paid_for) ==
    IF group.tag # "entity" THEN Raise(w, "AttributeError")          \* group.id
    ELSE RelationalEntity_init(w, Tmp1, "payment", TRUE,
            [group_id |-> w.objs[group.h].attrs.id, payer_id |-> w.objs[h].attrs.id,
             amount |-> amount, rel |-> paid_for])

\* Group.register_payment
register_payment(w, h, payer, amount, paid_for) ==
    IF payer.tag # "entity" THEN Raise(w, "AttributeError")          \* payer.id
    ELSE RelationalEntity_init(w, Tmp1, "payment", TRUE,
            [group_id |-> w.objs[h].attrs.id, payer_id |-> w.objs[payer.h].attrs.id,
             amount |-> amount, rel |-> paid_for])

\* a float cell of a DataFrame
Num(v) == [nan |-> FALSE, v |-> v]
NaN == [nan |-> TRUE, v |-> 0]

\* pd.DataFrame(index=members, columns=members).fillna(0.)
DataFrame(index, columns) ==
    [index |-> index, columns |-> columns,
     cells |-> [rc \in Range(index) \X Range(columns) |-> Num(0)]]

\* self.loc[index, col] = value: the labels the frame lacks are added, the
\* new cells are NaN

\* DataFrame.set_value(index, col, value).  With a label the frame does not
\* have, pandas either sets the value through .loc, which adds the row and
\* the column to the frame in place (enlarge), or returns a new frame, which
\* to_matrix drops: which of the two depends on the pandas installed.
loc_set(df, index, col, value) ==
    LET new_index == IF index \in Range(df.index) THEN df.index
                     ELSE Append(df.index, index)
        new_columns == IF col \in Range(df.columns) THEN df.columns
                       ELSE Append(df.columns, col)
    IN [index |-> new_index, columns |-> new_columns,
        cells |-> [rc \in Range(new_index) \X Range(new_columns) |->
                      IF rc = <<index, col>> THEN value
                      ELSE IF rc \in DOMAIN df.cells THEN df.cells[rc]
                      ELSE NaN]]

set_value(self, index, col, value, enlarge) ==
    CHOOSE frame \in
        {IF index \in Range(df.index) /\ col \in Range(df.columns)
         THEN [df EXCEPT !.cells[<<index, col>>] = value]
         ELSE IF enlarge THEN loc_set(df, index, col, value)
         ELSE df : df \in {self}} : TRUE

\* for rec in self.paid_for: df.set_value(self.payer_id, rec, amount / len(paid_for))
\* (the amounts of the model are multiples of the lengths)
RECURSIVE to_matrix_loop(_, _, _, _, _)
to_matrix_loop(df, recs, payer_id, value, enlarge) ==
    IF recs = <<>> THEN df
    ELSE to_matrix_loop(set_value(df, payer_id, Head(recs).id, value, enlarge),
                        Tail(recs), payer_id, value, enlarge)

\* Payment.to_matrix, what the call does to the world: g = Group.from_store
\* (self.group_id) left in Tmp1; iterating over a paid_for of None fails
to_matrix_g(w, h) ==
    LET w1 == RelationalEntity_from_store(w, Tmp1, "group", w.objs[h].attrs.group_id)
    IN IF w1.err # NoErr THEN w1
       ELSE IF w.objs[h].attrs.rel.tag # "list" THEN Raise(w1, "TypeError")
       ELSE w1

\* Payment.to_matrix, the frame it returns
to_matrix(w, h, enlarge) ==
    LET paid_for == w.objs[h].attrs.rel
    IN CHOOSE frame \in
          {IF paid_for.items = <<>> THEN DataFrame(members, members)
           ELSE to_matrix_loop(DataFrame(members, members),
                    paid_for.items, w.objs[h].attrs.payer_id,
                    Num(w.objs[h].attrs.amount \div Len(paid_for.items)), enlarge)
              : members \in {to_matrix_g(w, h).objs[Tmp1].list}} : TRUE

\* Person.refresh / Group.refresh
refresh(w, h) ==
    LET w1 == RelationalEntity_from_store(w, Tmp1, w.objs[h].kind, w.objs[h].attrs.id)
    IN IF w1.err # NoErr THEN w1
       ELSE [w1 EXCEPT !.objs[h] = w1.objs[Tmp1]]

\* ------------------------------------------------------------ state machine
World == [tables |-> tables, objs |-> objs, err |-> NoErr, log |-> <<>>]

Decode(cell) == IF cell = <<>> THEN <<>> ELSE split(cell)

Bounded(w) ==
    /\ \A h \in Slots : w.objs[h] # Null => Len(w.objs[h].list) <= MaxLen
    /\ \A k \in Kinds : \A i \in DOMAIN w.tables[k] :
            Len(Decode(w.tables[k][i].rel)) <= MaxLen

Live == {h \in Slots : objs[h] # Null}
LiveOf(cls) == {h \in Live : objs[h].kind = cls}

Stored(cls) == {tables[cls][i].id : i \in DOMAIN tables[cls]}

\* The arguments a caller passes: a reference to an object it holds, the id
\* of a stored entity, an id nothing is stored under, or a list of these.
Absent == <<NIds + 1>>
Entities == {EntityArg(h) : h \in Live}
Items == Entities \cup {IdArg(id) : id \in UNION {Stored(k) : k \in Kinds} \cup {Absent}}
Lists == {ListArg(<<a>>) : a \in Items} \cup {ListArg(<<a, b>>) : a \in Items, b \in Items}
PersonIdLists ==
    {ListArg(<<IdArg(a)>>) : a \in Stored("person")}
        \cup {ListArg(<<IdArg(a), IdArg(b)>>) : a \in Stored("person"), b \in Stored("person")}
Names == {Str("n")}
Amounts == {12}

\* the state before the call has no edge between the two objects, in memory
\* or in the files
Unrelated(w, h, k) ==
    /\ w.objs[k].attrs.id \notin Range(w.objs[h].list)
    /\ w.objs[h].attrs.id \notin Range(w.objs[k].list)
    /\ \A t \in Kinds : \A i \in DOMAIN w.tables[t] :
          /\ w.tables[t][i].id = w.objs[h].attrs.id
                => w.objs[k].attrs.id \notin Range(Decode(w.tables[t][i].rel))
          /\ w.tables[t][i].id = w.objs[k].attrs.id
                => w.objs[h].attrs.id \notin Range(Decode(w.tables[t][i].rel))

\* A caller of IOController.update and where it stands in the body: the
\* table it read (current_list), the entity it writes, and the entities whose
\* rows other callers saved since it read the table (missed).
Callers == 1..MaxCallers
Idle == [pc |-> "idle", h |-> 0, current_list |-> <<>>, missed |-> {}, at |-> "idle"]
InProgress == {"read", "dropped", "appended"}

\* the call returned or raised: its effects stay, the temporaries are dropped,
\* and an object whose constructor raised is never bound.  last keeps the
\* call's name, the form of its argument and how it ended; pair names the
\* two objects of an add that related them for the first time.
NoPair == <<0, 0>>

Return(w, op, arg, made, flag, pair) ==
    /\ Bounded(w)
    /\ tables' = w.tables
    /\ objs' = [s \in AllSlots |->
                    IF s \in {Tmp1, Tmp2} THEN Null
                    ELSE IF s = made /\ w.err # NoErr THEN Null
                    ELSE w.objs[s]]
    /\ last' = [op |-> op, tag |-> arg.tag, err |-> w.err, flag |-> flag,
                pair |-> IF w.err = NoErr THEN pair ELSE NoPair]
    /\ UNCHANGED calls

Init ==
    /\ tables = [k \in Kinds |-> <<>>]
    /\ objs = [s \in AllSlots |-> Null]
    /\ last = [op |-> "init", tag |-> "none", err |-> NoErr, flag |-> FALSE, pair |-> NoPair]
    /\ calls = [c \in Callers |-> Idle]

\* Person(name=..., groups=...)
NewPersonWith(args) ==
    \E name \in Names, groups \in args :
        /\ Unused(World, "person") # {}
        /\ LET h == uuid4(World, "person")[1]
           IN Return(RelationalEntity_init(World, h, "person", TRUE, [name |-> name, rel |-> groups]),
                     "Person", groups, h, FALSE, NoPair)

\* Group(name=..., members=...)
NewGroupWith(args) ==
    \E name \in Names, members \in args :
        /\ Unused(World, "group") # {}
        /\ LET h == uuid4(World, "group")[1]
           IN Return(RelationalEntity_init(World, h, "group", TRUE, [name |-> name, rel |-> members]),
                     "Group", members, h, FALSE, NoPair)

\* Payment(group_id=..., payer_id=..., amount=..., paid_for=...)
NewPaymentWith(args) ==
    \E group_id \in Stored("group"), payer_id \in Stored("person") \cup Stored("group"),
       amount \in Amounts, paid_for \in args :
        /\ Unused(World, "payment") # {}
        /\ LET h == uuid4(World, "payment")[1]
           IN Return(RelationalEntity_init(World, h, "payment", TRUE,
                         [group_id |-> group_id, payer_id |-> payer_id, amount |-> amount,
                          rel |-> paid_for]),
                     "Payment", paid_for, h, FALSE, NoPair)

\* flag of an add: the two objects were unrelated before it
FirstEdge(h, arg) == arg.tag = "entity" /\ Unrelated(World, h, arg.h)
PairOf(h, arg) == IF FirstEdge(h, arg) THEN <<h, arg.h>> ELSE NoPair

AddToGroupWith(args) ==
    \E h \in LiveOf("person"), group \in args :
        Return(add_to_group(World, h, group, TRUE), "add_to_group", group, 0,
               FirstEdge(h, group), PairOf(h, group))

AddMemberWith(args) ==
    \E h \in LiveOf("group"), person \in args :
        Return(add_member(World, h, person, TRUE), "add_member", person, 0,
               FirstEdge(h, person), PairOf(h, person))

AddPersonWith(args) ==
    \E h \in LiveOf("payment"), person \in args :
        Return(add_person(World, h, person), "add_person", person, 0, FALSE, NoPair)

\* flag of a remove: it undoes the add that came right before it, on the
\* same two objects, which that add related for the first time
Undoes(op, h, arg) ==
    /\ last.op = op /\ last.err = NoErr /\ last.flag
    /\ arg.tag = "entity" /\ last.pair = <<h, arg.h>>

RemoveFromGroupWith(args) ==
    \E h \in LiveOf("person"), group \in args :
        Return(remove_from_group(World, h, group, TRUE), "remove_from_group", group, 0,
               Undoes("add_to_group", h, group), NoPair)

RemoveMemberWith(args) ==
    \E h \in LiveOf("group"), person \in args :
        Return(remove_member(World, h, person, TRUE), "remove_member", person, 0,
               Undoes("add_member", h, person), NoPair)

\* cls.from_store(id), the result kept as a second reference
FromStoreOf(kinds) ==
    \E cls \in kinds : \E id \in IdsOf(cls) :
        /\ Extra \ Live # {}
        /\ LET h == CHOOSE f \in Extra \ Live : \A g \in Extra \ Live : f <= g
           IN Return(RelationalEntity_from_store(World, h, cls, id), "from_store", IdArg(id), h,
                     FALSE, NoPair)

Refresh ==
    \E h \in LiveOf("person") \cup LiveOf("group") :
        Return(refresh(World, h), "refresh", None, 0, FALSE, NoPair)

Payments ==
    \E h \in LiveOf("group") :
        Return(payments(World, h), "payments", None, 0, FALSE, NoPair)

\* ---- persons and groups: every form of the relationship argument, and
\* second references to an entity
RelNewPerson ==
    /\ Cardinality(Stored("person")) < RelPersons
    /\ NewPersonWith({None} \cup Lists)
RelNewGroup == NewGroupWith({None} \cup Lists)
RelAddToGroup == AddToGroupWith(Items \cup Lists)
RelAddMember == AddMemberWith(Items \cup Lists)
RelRemoveFromGroup == RemoveFromGroupWith(Items)
RelRemoveMember == RemoveMemberWith(Items)
RelFromStore == FromStoreOf({"person", "group"})

Next ==
    \/ RelNewPerson
    \/ RelNewGroup
    \/ RelAddToGroup
    \/ RelAddMember
    \/ RelRemoveFromGroup
    \/ RelRemoveMember
    \/ RelFromStore
    \/ Refresh

Spec == Init /\ [][Next]_vars

\* ---- payments: persons and groups built and related through entity
\* references, payments created, extended and read back
PayNewPerson == NewPersonWith({None})
PayNewGroup == NewGroupWith({None})
PayAddMember == AddMemberWith(Entities)
PayRemoveMember == RemoveMemberWith(Entities)
PayNewPayment == NewPaymentWith({None, ListArg(<<>>)} \cup PersonIdLists)
PayAddPerson == AddPersonWith(Items)
PayFromStore == FromStoreOf({"payment"})

\* P.make_payment(G, amount)
PayMakePayment ==
    \E h \in LiveOf("person"), g \in LiveOf("group"), amount \in Amounts :
        /\ Unused(World, "payment") # {}
        /\ Return(make_payment(World, h, EntityArg(g), amount, None),
                  "make_payment", EntityArg(g), 0, FALSE, NoPair)

\* G.register_payment(payer, amount), the payer any entity the caller holds
PayRegisterPayment ==
    \E h \in LiveOf("group"), payer \in Entities, amount \in Amounts :
        /\ Unused(World, "payment") # {}
        /\ Return(register_payment(World, h, payer, amount, None),
                  "register_payment", payer, 0, objs[payer.h].kind = "person", NoPair)

\* the frame has the group's members on both axes
Square(df, members) == df.index = members /\ df.columns = members

\* payment.to_matrix(): the frame is returned to the caller, the state keeps
\* what Group.from_store did
PayToMatrix ==
    \E h \in LiveOf("payment") :
        Return(to_matrix_g(World, h), "to_matrix", None, 0, FALSE, NoPair)

NextPay ==
    \/ PayNewPerson
    \/ PayNewGroup
    \/ PayAddMember
    \/ PayRemoveMember
    \/ PayNewPayment
    \/ PayAddPerson
    \/ PayFromStore
    \/ Payments
    \/ PayMakePayment
    \/ PayRegisterPayment
    \/ PayToMatrix

SpecPay == Init /\ [][NextPay]_vars

\* ---- attributes and rows: attribute updates, identifiers supplied by the
\* caller, rows stored again and rows deleted
NewNames == {Str("m")}
BadNames == {None, Dict, ListArg(<<>>)}     \* not a str, an int or a float
BadRels == {Dict} \cup Entities              \* not None, a list or a scalar

Kwargs(h) ==
    {[name |-> v] : v \in NewNames \cup BadNames}
        \cup {[id |-> i] : i \in Stored(objs[h].kind) \cup {Absent}}
        \cup {[name |-> v, rel |-> r] : v \in NewNames, r \in BadRels}

\* a supplied value is of a type the entity does not take
Disallowed(kwargs) ==
    \/ "name" \in DOMAIN kwargs /\ kwargs.name \in BadNames
    \/ "rel" \in DOMAIN kwargs /\ kwargs.rel \in BadRels

\* Person(name=..., id=...)
AttrNewPersonWithId ==
    \E name \in Names, id \in Stored("person") \cup {Absent} :
        /\ Extra \ Live # {}
        /\ Len(tables["person"]) < MaxRows
        /\ LET h == CHOOSE f \in Extra \ Live : \A g \in Extra \ Live : f <= g
           IN Return(RelationalEntity_init(World, h, "person", TRUE,
                         [name |-> name, rel |-> None, id |-> id]),
                     "PersonWithId", IdArg(id), h, id \in Stored("person"), NoPair)

AttrNewPerson ==
    /\ LiveOf("person") = {}
    /\ NewPersonWith({None})

AttrUpdateAttributes ==
    \E h \in Live : \E kwargs \in Kwargs(h) :
        Return(update_attributes(World, h, kwargs), "update_attributes",
               [tag |-> IF "id" \in DOMAIN kwargs THEN "id" ELSE "name"], 0,
               ~Disallowed(kwargs), NoPair)

AttrStore ==
    \E h \in Live :
        /\ Len(tables[objs[h].kind]) < MaxRows
        /\ Return(store(World, h), "store", None, 0, FALSE, NoPair)

AttrDelete ==
    \E h \in Live :
        Return(delete_from_store(World, h), "delete_from_store", None, 0, FALSE, NoPair)

NextAttr ==
    \/ AttrNewPerson
    \/ AttrNewPersonWithId
    \/ AttrUpdateAttributes
    \/ AttrStore
    \/ AttrDelete
    \/ Refresh

SpecAttr == Init /\ [][NextAttr]_vars

\* ---- the store shared by several callers: IOController.update statement
\* by statement, and the process of a caller dying in the middle of it
Busy == {calls[c].h : c \in {d \in Callers : calls[d].pc \in InProgress}}

\* entity.update_attributes(name=...) up to the first statement of
\* IOController.update: current_list = self.retrieve_entity_list(entity.type)
StoreRead(c) ==
    \E h \in Live \ Busy : \E name \in NewNames :
        /\ calls[c].pc = "idle"
        /\ objs[h].attrs.name # name
        /\ LET w == AttrsUpdate(World, h, [name |-> name])
           IN /\ objs' = w.objs
              /\ calls' = [calls EXCEPT ![c] =
                    [pc |-> "read", h |-> h, missed |-> {}, at |-> "read",
                     current_list |-> retrieve_entity_list(w, objs[h].kind)]]
        /\ UNCHANGED <<tables, last>>

\* current_list.drop(entity.id, axis=0, inplace=True)
StoreDrop(c) ==
    /\ calls[c].pc = "read"
    /\ calls' = [calls EXCEPT ![c] =
          IF \A i \in DOMAIN @.current_list : @.current_list[i].id # objs[@.h].attrs.id
          THEN [@ EXCEPT !.pc = "raised", !.at = "drop"]
          ELSE [@ EXCEPT !.pc = "dropped",
                         !.current_list = SelectSeq(@, LAMBDA r : r.id # objs[calls[c].h].attrs.id)]]
    /\ UNCHANGED <<tables, objs, last>>

\* current_list = current_list.append(entity.to_df())
StoreAppend(c) ==
    /\ calls[c].pc = "dropped"
    /\ calls' = [calls EXCEPT ![c] =
          [@ EXCEPT !.pc = "appended",
                    !.current_list = Append(@, to_df(objs[calls[c].h]))]]
    /\ UNCHANGED <<tables, objs, last>>

\* the callers that read the table before this write and have not written
Stale(c) ==
    {d \in Callers \ {c} :
        calls[d].pc \in InProgress /\ objs[calls[d].h].kind = objs[calls[c].h].kind}

\* self._save(current_list, ...): the file is replaced by what this caller
\* read, with its own row replaced
StoreSave(c) ==
    /\ calls[c].pc = "appended"
    /\ tables' = _save(World, calls[c].current_list, objs[calls[c].h].kind).tables
    /\ calls' = [d \in Callers |->
          IF d = c THEN [calls[c] EXCEPT !.pc = "returned", !.at = "save"]
          ELSE IF d \in Stale(c) THEN [calls[d] EXCEPT !.missed = @ \cup {calls[c].h}]
          ELSE calls[d]]
    /\ UNCHANGED <<objs, last>>

\* Faulty variant: the file is replaced in one step, a crash leaves the old file
_save_crash_atomic(w, df, entity_type) == {w}

\* df.to_csv(filename) cut short: the file is opened for writing, which
\* empties it, and the rows are written in order; a crash leaves the rows
\* written so far
_save_crash(w, df, entity_type) ==
    {_save(w, SubSeq(df, 1, n), entity_type) : n \in 0..(Len(df) - 1)}

\* the process of the caller dies between two statements of update
StoreCrash(c) ==
    /\ calls[c].pc \in InProgress
    /\ calls' = [calls EXCEPT ![c] = [@ EXCEPT !.pc = "crashed", !.at = calls[c].pc]]
    /\ UNCHANGED <<tables, objs, last>>

\* the process of the caller dies while _save writes the file
StoreCrashInSave(c) ==
    /\ calls[c].pc = "appended"
    /\ \E w \in _save_crash(World, calls[c].current_list, objs[calls[c].h].kind) :
          tables' = w.tables
    /\ calls' = [calls EXCEPT ![c] = [@ EXCEPT !.pc = "crashed", !.at = "save"]]
    /\ UNCHANGED <<objs, last>>

StoreNewPerson == NewPersonWith({None})
StoreNewGroup == NewGroupWith({None})

NextStore ==
    \/ StoreNewPerson
    \/ StoreNewGroup
    \/ \E c \in Callers : StoreRead(c)
    \/ \E c \in Callers : StoreDrop(c)
    \/ \E c \in Callers : StoreAppend(c)
    \/ \E c \in Callers : StoreSave(c)
    \/ \E c \in Callers : StoreCrash(c)
    \/ \E c \in Callers : StoreCrashInSave(c)

SpecStore == Init /\ [][NextStore]_vars

\* ------------------------------------------------------------------ claims
\* what the files hold for an entity: the decoded relationship cell of each
\* of its rows
Persisted(w, cls, id) ==
    {Decode(w.tables[cls][i].rel) : i \in {j \in DOMAIN w.tables[cls] : w.tables[cls][j].id = id}}

\* id is in the persisted relationship list of the entity (cls, of)
InRecord(w, cls, of, id) ==
    /\ Persisted(w, cls, of) # {}
    /\ \A lst \in Persisted(w, cls, of) : id \in Range(lst)

NotInRecord(w, cls, of, id) ==
    \A lst \in Persisted(w, cls, of) : id \notin Range(lst)

IdOf(h) == objs[h].attrs.id

\* the persisted lists of persons and groups mirror each other
Symmetric ==
    \A p \in Stored("person"), g \in Stored("group") :
        InRecord(World, "person", p, g) <=> InRecord(World, "group", g, p)

\* C1: a relationship operation that completes keeps the persisted lists
\* mirrored: G's id is in P's persisted groups iff P's id is in G's
\* persisted members.
C1_SymmetryPreserved == [][(Symmetric /\ last'.err = NoErr) => Symmetric']_vars

\* C2: when P.add_to_group(G), G an entity reference, returns, G's members
\* hold P's id and P's groups hold G's id, on the objects and in the files.
C2_AddUpdatesBothSides ==
    \A h \in LiveOf("person"), k \in LiveOf("group") :
        LET w == add_to_group(World, h, EntityArg(k), TRUE)
        IN w.err = NoErr =>
              /\ IdOf(k) \in Range(w.objs[h].list)
              /\ IdOf(h) \in Range(w.objs[k].list)
              /\ InRecord(w, "person", IdOf(h), IdOf(k))
              /\ InRecord(w, "group", IdOf(k), IdOf(h))

C2_Witness ==
    /\ last.op = "add_to_group" /\ last.tag = "entity" /\ last.err = NoErr
    /\ \E h \in LiveOf("person"), k \in LiveOf("group") :
          /\ IdOf(k) \in Range(objs[h].list)
          /\ IdOf(h) \in Range(objs[k].list)
          /\ InRecord(World, "person", IdOf(h), IdOf(k))
          /\ InRecord(World, "group", IdOf(k), IdOf(h))

\* C3: for P and G not related before, P.add_to_group(G) followed by
\* P.remove_from_group(G) leaves neither list holding the other's id, on the
\* objects and in the files.
C3_AddThenRemove ==
    \A h \in LiveOf("person"), k \in LiveOf("group") :
        Unrelated(World, h, k) =>
            LET w1 == add_to_group(World, h, EntityArg(k), TRUE)
                w2 == remove_from_group(w1, h, EntityArg(k), TRUE)
            IN w1.err = NoErr =>
                  /\ w2.err = NoErr
                  /\ IdOf(k) \notin Range(w2.objs[h].list)
                  /\ IdOf(h) \notin Range(w2.objs[k].list)
                  /\ NotInRecord(w2, "person", IdOf(h), IdOf(k))
                  /\ NotInRecord(w2, "group", IdOf(k), IdOf(h))

C3_Witness ==
    /\ last.op = "remove_from_group" /\ last.err = NoErr /\ last.flag
    /\ \E h \in LiveOf("person"), k \in LiveOf("group") : Unrelated(World, h, k)

\* the two calls end in the same lists and the same files
SameEnd(w1, w2) == w1.tables = w2.tables /\ w1.objs = w2.objs

BothOrNeither(w1, w2) ==
    (w1.err = NoErr \/ w2.err = NoErr) => (w1.err = NoErr /\ w2.err = NoErr /\ SameEnd(w1, w2))

NoDuplicates(lst) == \A i, j \in DOMAIN lst : lst[i] = lst[j] => i = j

\* C5: no relationship list, in memory or in the files, holds the same
\* identifier twice.
C5_NoDuplicateIds ==
    /\ \A h \in Live : NoDuplicates(objs[h].list)
    /\ \A k \in Kinds : \A i \in DOMAIN tables[k] : NoDuplicates(Decode(tables[k][i].rel))

\* the id an argument names
ArgId(x) == IF x.tag = "entity" THEN IdOf(x.h) ELSE x.id
ArgItems(arg) == IF arg.tag = "list" THEN Range(arg.items) ELSE {arg}

\* C6: add_relationship raises the type-mismatch error (TypeError) whenever
\* a target, passed as an entity or as an id, alone or in a list, names an id
\* that is not stored under the kind the entity relates to.
C6_WrongKindRejected ==
    \A h \in Live : \A arg \in Items \cup Lists :
        (\E x \in ArgItems(arg) : ArgId(x) \notin Stored(RELATIONSHIP_TYPE(objs[h].kind)))
            => add_relationship(World, h, arg, TRUE).err = "TypeError"

C6_Witness ==
    /\ last.op \in {"add_to_group", "add_member"}
    /\ last.tag \in {"entity", "id"}
    /\ last.err = "TypeError"

\* C7: remove_relationship raises the relationship-not-found error
\* (ValueError) whenever the target's id is not in the entity's list, and then
\* changes no object and no file and issues no write.
C7_RemoveAbsentFails ==
    \A h \in Live, k \in Live :
        IdOf(k) \notin Range(objs[h].list) =>
            LET w == remove_relationship(World, h, EntityArg(k), TRUE)
            IN /\ w.err = "ValueError"
               /\ w.objs = objs
               /\ w.tables = tables
               /\ w.log = <<>>

C7_Witness ==
    /\ last.op \in {"remove_from_group", "remove_member"}
    /\ last.tag = "entity"
    /\ last.err = "ValueError"
    /\ \A h \in Live : objs[h].list = <<>>

\* C8: a Payment created for group G with the beneficiaries omitted holds,
\* in memory and in its row, the list G's row held when it was created, in
\* the same order.
C8_DefaultBeneficiaries ==
    Unused(World, "payment") # {} =>
        \A g \in Stored("group"), payer \in Stored("person") \cup Stored("group"),
           amount \in Amounts :
            LET h == uuid4(World, "payment")[1]
                w == RelationalEntity_init(World, h, "payment", TRUE,
                        [group_id |-> g, payer_id |-> payer, amount |-> amount, rel |-> None])
            IN w.err = NoErr =>
                  /\ Persisted(World, "group", g) = {w.objs[h].list}
                  /\ w.objs[h].attrs.rel = IdList(w.objs[h].list)
                  /\ Persisted(w, "payment", w.objs[h].attrs.id) = {w.objs[h].list}

C8_Witness ==
    /\ last.op = "Payment" /\ last.tag = "none" /\ last.err = NoErr
    /\ \E h \in LiveOf("payment") :
          /\ Len(objs[h].list) = 2
          /\ objs[h].list[1] # objs[h].list[2]
          /\ Persisted(World, "group", objs[h].attrs.group_id) = {objs[h].list}
          /\ Persisted(World, "payment", IdOf(h)) = {objs[h].list}

\* the row of the object is what the object would write now
IsStored(h) ==
    \E i \in DOMAIN tables[objs[h].kind] :
        retrieve_entity_list(World, objs[h].kind)[i]
            = [to_df(objs[h]) EXCEPT !.rel = read_cell(write_cell(@))]

\* C9: a stored entity reconstructed by id has the relationship list of the
\* object that was stored: an empty list comes back empty, a non-empty one
\* comes back with the same ids in the same order.
C9_RoundTrip ==
    \A h \in Live :
        IsStored(h) =>
            LET w == RelationalEntity_from_store(World, Tmp1, objs[h].kind, IdOf(h))
            IN /\ w.err = NoErr
               /\ w.objs[Tmp1].list = objs[h].list

\* C10: reconstructing an entity from its row (from_store, Group.payments)
\* issues no store or update and leaves every file as it was.
C10_ReconstructionWritesNothing ==
    /\ \A cls \in Kinds : \A id \in Stored(cls) :
          LET w == RelationalEntity_from_store(World, Tmp1, cls, id)
          IN w.log = <<>> /\ w.tables = tables
    /\ \A h \in LiveOf("group") :
          LET w == payments(World, h)
          IN w.log = <<>> /\ w.tables = tables

\* C11: update_attributes with a value of a disallowed type among the
\* supplied attributes fails with TypeError and leaves the attribute map of
\* every object and every file as it was: no attribute is merged, nothing is
\* written.
C11_ValidatesBeforeMutation ==
    \A h \in Live : \A kwargs \in Kwargs(h) :
        Disallowed(kwargs) =>
            LET w == update_attributes(World, h, kwargs)
            IN /\ w.err = "TypeError"
               /\ w.objs = objs
               /\ w.tables = tables
               /\ w.log = <<>>

C11_Witness ==
    /\ last.op = "update_attributes" /\ last.err = "TypeError" /\ ~last.flag
    /\ \E h \in Live : objs[h].attrs.name \in NewNames /\ IsStored(h)

\* C12: no operation changes the identifier of an object: entity.id is the
\* id the object had after construction.
C12_IdNeverChanges ==
    [][\A h \in Slots :
          (objs[h] # Null /\ objs'[h] # Null) => objs'[h].attrs.id = objs[h].attrs.id]_vars

\* C20: every table holds at most one row per identifier.
C20_OneRowPerId ==
    \A k \in Kinds : \A i, j \in DOMAIN tables[k] :
        tables[k][i].id = tables[k][j].id => i = j

\* C13: every payment row names a stored person as its payer and a stored
\* group as its group.
C13_PaymentReferencesValid ==
    \A i \in DOMAIN tables["payment"] :
        /\ tables["payment"][i].payer_id \in Stored("person")
        /\ tables["payment"][i].group_id \in Stored("group")

\* the members the group's row holds
MembersOf(group_id) == CHOOSE lst \in Persisted(World, "group", group_id) : TRUE

\* C14: to_matrix returns a frame with the group's current members on both
\* axes, in which the cell (payer, b) is amount / count for every beneficiary
\* b that is a member and every other cell is zero, whoever the payer and
\* the beneficiaries are.
C14_MatrixOverMembers ==
    \A h \in LiveOf("payment"), enlarge \in BOOLEAN :
        to_matrix_g(World, h).err = NoErr =>
            \A members \in {MembersOf(objs[h].attrs.group_id)} :
            \A df \in {to_matrix(World, h, enlarge)} :
              /\ Square(df, members)
              /\ \A row \in Range(members), col \in Range(members) :
                    df.cells[<<row, col>>] =
                        IF row = objs[h].attrs.payer_id /\ col \in Range(objs[h].list)
                        THEN Num(objs[h].attrs.amount \div Len(objs[h].list))
                        ELSE Num(0)

\* the write of the row of the object h
WriteOf(h) == [op |-> "update", type |-> objs[h].kind, id |-> IdOf(h)]

TwoWrites(w, h, k) ==
    /\ w.err = NoErr
    /\ Len(w.log) = 2
    /\ Range(w.log) = {WriteOf(h), WriteOf(k)}

\* C15: P.add_to_group(G) and G.add_member(P), the target an entity, return
\* after exactly two writes to the store: one of the initiator's row and one
\* of the peer's row.
C15_TwoWritesPerEdge ==
    \A h \in LiveOf("person"), k \in LiveOf("group") :
        /\ TwoWrites(add_to_group(World, h, EntityArg(k), TRUE), h, k)
        /\ TwoWrites(add_member(World, k, EntityArg(h), TRUE), k, h)

C15_Witness ==
    /\ last.op \in {"add_to_group", "add_member"} /\ last.tag = "entity"
    /\ last.err = NoErr /\ last.flag
    /\ \E h \in LiveOf("person"), k \in LiveOf("group") : last.pair \in {<<h, k>>, <<k, h>>}

\* C16: in a propagating add or remove that returns, the first write is the
\* write of the initiator's row, the write of the peer's row comes after it.
C16_InitiatorWrittenFirst ==
    \A h \in LiveOf("person"), k \in LiveOf("group") :
        /\ LET w == add_to_group(World, h, EntityArg(k), TRUE)
           IN w.err = NoErr => w.log[1] = WriteOf(h)
        /\ LET w == remove_from_group(World, h, EntityArg(k), TRUE)
           IN w.err = NoErr => w.log[1] = WriteOf(h)

\* C19: an add_relationship or remove_relationship that raises leaves every
\* object and every file as it was before the call.
C19_FailedCallChangesNothing ==
    /\ \A h \in Live : \A arg \in Items \cup Lists :
          LET w == add_relationship(World, h, arg, TRUE)
          IN w.err # NoErr => w.objs = objs /\ w.tables = tables
    /\ \A h \in Live, k \in Live :
          LET w == remove_relationship(World, h, EntityArg(k), TRUE)
          IN w.err # NoErr => w.objs = objs /\ w.tables = tables

\* the caller's update returned in this step
Saves(c) == calls[c].pc = "appended" /\ calls'[c].pc = "returned"

\* C17: when an update returns that read the table before another update
\* of the same table wrote it, the table no longer holds the row the other
\* update wrote: that change is lost although both updates completed.
C17_StaleSaveLosesUpdate ==
    [][\A c \in Callers : Saves(c) => \A h \in calls[c].missed : ~IsStored(h)']_vars

C17_Witness ==
    \E c \in Callers, d \in Callers :
        /\ calls[c].pc = "returned" /\ calls[d].pc = "returned"
        /\ calls[c].h \in calls[d].missed
        /\ IsStored(calls[d].h)
        /\ ~IsStored(calls[c].h)
        /\ HasRow(World, objs[calls[c].h].kind, IdOf(calls[c].h))

\* the caller's process died in this step while _save wrote the file
DiesInSave(c) ==
    calls[c].pc = "appended" /\ calls'[c].pc = "crashed" /\ calls'[c].at = "save"

\* the caller's process died in this step between two statements of update
DiesBeforeSave(c) ==
    calls[c].pc \in InProgress /\ calls'[c].pc = "crashed" /\ calls'[c].at # "save"

RECURSIVE CellSum(_, _)
CellSum(cells, keys) ==
    IF keys = {} THEN 0
    ELSE LET rc == CHOOSE k \in keys : TRUE
         IN (IF cells[rc].nan THEN 0 ELSE cells[rc].v) + CellSum(cells, keys \ {rc})

\* C21: for a payment with a non-empty beneficiary list whose payer and
\* beneficiaries are members of its group, the cells of to_matrix sum to the
\* payment's amount.
C21_CellsSumToAmount ==
    \A h \in LiveOf("payment"), enlarge \in BOOLEAN :
        (/\ to_matrix_g(World, h).err = NoErr
         /\ objs[h].list # <<>>
         /\ Range(objs[h].list) \cup {objs[h].attrs.payer_id}
                \subseteq Range(MembersOf(objs[h].attrs.group_id)))
            => \A df \in {to_matrix(World, h, enlarge)} :
                  CellSum(df.cells, DOMAIN df.cells) = objs[h].attrs.amount

====
